---- MODULE Spec2Model ----
(***************************************************************************)
(* Supplier negotiation engine and AP2 payment-mandate lifecycle of        *)
(* azure-agents/realtime_price_agent: services/negotiation_service.py,     *)
(* services/ap2_service.py and the tool handlers of the two MCP servers.   *)
(*                                                                         *)
(* Time is counted in ticks of 1/TicksPerSecond second.  Prices of the     *)
(* negotiation are integers in cents, mandate amounts integers in tenths   *)
(* of a cent.  Identifiers drawn from uuid4 are the index of the record in *)
(* its table.                                                              *)
(***************************************************************************)
EXTENDS Integers, Sequences, FiniteSets, TLC

\* ------------------------------------------------------------------ bounds
MaxTime == 4
MaxMandates == 1
MaxKeys == 3
MaxSessions == 1
MaxRounds == 3
MaxDeepRounds == 5
\* rounds of the pricing runs
MaxPricingRounds == 2
\* rounds of the runs that read sessions back
MaxReadRounds == 4
\* sessions and rounds of the runs over several sessions
MaxFrameSessions == 2
MaxFrameRounds == 3
\* calls that may be in flight at the same time
MaxCalls == 2

\* ------------------------------------------------------- program constants
\* clock resolution of the model: datetime has sub-second resolution, the
\* JWT exp claim has whole seconds (int(...timestamp()))
TicksPerSecond == 2
\* timedelta(hours=24), scaled to 1 second = 2 ticks
Validity == 2
Audience == "ap2-payment-gateway"

\* None, for strings and for timestamps
Null == "null"
NoTime == -1

\* ------------------------------------------------------------ input sets
Suppliers == {"SUP1", "SUP2"}
SupplierArgs == Suppliers \cup {"SUPX"}
\* supplier_id arguments of create_mandate: one known, one unknown supplier
MandateSupplierArgs == {"SUP1", "SUPX"}
Amounts == {1000}
\* further create_mandate arguments of the round-trip runs
RoundTripAmounts == {1000, 1004}
Currencies == {"USD", "EUR"}
MerchantAuths == {Null, "sig"}
PoNumbers == {"PO1", "PO2"}

VARIABLES now, nextKey, mandates, result, sessions, rounds, calls

vars == <<now, nextKey, mandates, result, sessions, rounds, calls>>
ap2Vars == <<nextKey, mandates>>
negVars == <<sessions, rounds>>

\* round(n / d): the nearest integers to n/d; on a decimal tie the binary
\* value of the float decides, so both neighbours are possible
Rounded(n, d) ==
    {q \in {n \div d, (n \div d) + 1} :
        2 * (IF q * d >= n THEN q * d - n ELSE n - q * d) <= d}

\* ------------------------------------------------------------ AP2 service
\* key of the one long-lived AP2Service instance; every tool call builds a
\* further instance with a freshly generated key (nextKey)
ServiceKey == 0

MandateStatus == {"created", "verified", "executed", "expired", "failed"}
TerminalMandateStatus == {"executed", "expired", "failed"}

MandateIds == 1..Len(mandates)

\* `not x` / `if x` on an optional string argument
Truthy(x) == x # Null /\ x # ""

\* int(datetime.timestamp()): whole seconds, expressed in ticks
IntTimestamp(t) == (t \div TicksPerSecond) * TicksPerSecond

\* arguments.get(name, default)
ArgGet(present, value, default) == IF present THEN value ELSE default

\* the call made by the latest step and what it returned (NoResult when the
\* step was no call): ok is FALSE when it raised,
\* valid is the "valid" entry of verify_mandate's dict (FALSE for other calls),
\* consent the user_consent argument of create_mandate (FALSE for other calls)
\* decoded is the "decoded_payload" entry of verify_mandate's dict, reported
\* its "supplier_id", "amount" and "currency" entries (NoClaims elsewhere)
NoClaims == [sub |-> Null, amount |-> -1, currency |-> Null]

\* ranked and best are the "ranked_suppliers" and "best_offer" entries of
\* compare_offers' dict (empty and NoOffer elsewhere)
NoOffer ==
    [supplier_id |-> Null, offered_price |-> -1, total_value |-> -1,
     round_number |-> 0]

\* session and rounds are the session fields and the "rounds" entry of
\* get_status' dict (NoSession and empty elsewhere), pem the key
\* get_public_key_pem returns (NoKey elsewhere)
NoSession ==
    [status |-> Null, items |-> << >>, max_rounds |-> 0, current_round |-> 0,
     winning_supplier_id |-> Null, final_price |-> -1, total_value |-> -1,
     completed_at |-> NoTime]
NoKey == -2

NoResult ==
    [op |-> "none", via |-> "none", id |-> 0, arg |-> Null, consent |-> FALSE,
     ok |-> TRUE, valid |-> FALSE, error |-> Null, status |-> Null,
     decoded |-> NoClaims, reported |-> NoClaims,
     ranked |-> << >>, best |-> NoOffer,
     session |-> NoSession, rounds |-> << >>, pem |-> NoKey]

Ret(op, via, id, arg, ok, valid, error, status) ==
    [op |-> op, via |-> via, id |-> id, arg |-> arg, consent |-> FALSE,
     ok |-> ok, valid |-> valid, error |-> error, status |-> status,
     decoded |-> NoClaims, reported |-> NoClaims,
     ranked |-> << >>, best |-> NoOffer,
     session |-> NoSession, rounds |-> << >>, pem |-> NoKey]

\* jwt.encode(mandate_payload, self.private_key, "RS256")
MandateToken(key, supplier_id, amount, currency, consent, t) ==
    [key |-> key, iss |-> "SupplyMind", sub |-> supplier_id, aud |-> Audience,
     iat |-> IntTimestamp(t), exp |-> IntTimestamp(t + Validity),
     amount |-> amount, currency |-> currency, user_consent |-> consent]

\* jwt.decode(token, self.public_key, algorithms=["RS256"], audience=...):
\* the signature is verified first, then exp, then aud
JwtDecode(token, key, t) ==
    IF token.key # key THEN "InvalidSignatureError"
    ELSE IF token.exp <= t THEN "ExpiredSignatureError"
    ELSE IF token.aud # Audience THEN "InvalidAudienceError"
    ELSE "ok"

\* the payload jwt.decode returns for a token it accepts
DecodedPayload(token) ==
    [sub |-> token.sub, amount |-> token.amount, currency |-> token.currency]

\* Column(DECIMAL(12, 2)): the amount as the table keeps it, rounded to
\* whole cents
StoredAmount(amount) == {q * 10 : q \in Rounded(amount, 10)}

\* the row create_mandate stores; `stored` is the amount after the column's
\* rounding.  args is not a column: it keeps the arguments of the
\* create_mandate call for the properties that compare against them
NewMandate(key, supplier_id, amount, stored, currency, consent, t) ==
    [supplier_id |-> supplier_id, amount |-> stored, currency |-> currency,
     token |-> MandateToken(key, supplier_id, amount, currency, consent, t),
     status |-> "created", expires_at |-> t + Validity,
     executed_at |-> NoTime, po_number |-> Null,
     merchant_authorization |-> Null, error_message |-> Null,
     args |-> [sub |-> supplier_id, amount |-> amount, currency |-> currency]]

\* create_mandate that stores the mandate whatever user_consent is
DoCreateMandateNoConsentCheck(via, key, supplier_id, amount, currency, consent) ==
    IF supplier_id \notin Suppliers THEN
        /\ result' = [Ret("create_mandate", via, 0, supplier_id, FALSE, FALSE,
                             "NotFound", Null)
                          EXCEPT !.consent = consent]
        /\ UNCHANGED mandates
    ELSE
        /\ \E stored \in StoredAmount(amount) :
               mandates' = Append(mandates,
                   NewMandate(key, supplier_id, amount, stored, currency,
                              consent, now))
        /\ result' = [Ret("create_mandate", via, Len(mandates) + 1,
                             supplier_id, TRUE, FALSE, Null, "created")
                          EXCEPT !.consent = consent]

\* AP2Service.create_mandate on the instance holding `key`
DoCreateMandate(via, key, supplier_id, amount, currency, consent) ==
    IF ~consent THEN
        /\ result' = [Ret("create_mandate", via, 0, supplier_id, FALSE, FALSE,
                             "PermissionDenied", Null)
                          EXCEPT !.consent = consent]
        /\ UNCHANGED mandates
    ELSE IF supplier_id \notin Suppliers THEN
        /\ result' = [Ret("create_mandate", via, 0, supplier_id, FALSE, FALSE,
                             "NotFound", Null)
                          EXCEPT !.consent = consent]
        /\ UNCHANGED mandates
    ELSE
        /\ \E stored \in StoredAmount(amount) :
               mandates' = Append(mandates,
                   NewMandate(key, supplier_id, amount, stored, currency,
                              consent, now))
        /\ result' = [Ret("create_mandate", via, Len(mandates) + 1,
                             supplier_id, TRUE, FALSE, Null, "created")
                          EXCEPT !.consent = consent]

\* AP2Service.verify_mandate: the mandate record after the call
VerifiedMandate(m, key, auth, t) ==
    IF t > m.expires_at THEN [m EXCEPT !.status = "expired"]
    ELSE
        LET d == JwtDecode(m.token, key, t) IN
        IF d = "ok" THEN
            IF Truthy(auth)
            THEN [m EXCEPT !.merchant_authorization = auth,
                           !.status = "verified"]
            ELSE m
        ELSE IF d = "ExpiredSignatureError" THEN
            [m EXCEPT !.status = "expired",
                      !.error_message = "JWT signature expired"]
        ELSE IF d = "InvalidSignatureError" THEN
            [m EXCEPT !.status = "failed",
                      !.error_message = "Invalid JWT signature"]
        ELSE
            [m EXCEPT !.status = "failed", !.error_message = d]

\* AP2Service.verify_mandate: the "error" entry of the returned dict
\* (Null when the dict says valid=True)
VerifyError(m, key, t) ==
    IF t > m.expires_at THEN "Mandate expired"
    ELSE
        LET d == JwtDecode(m.token, key, t) IN
        IF d = "ok" THEN Null
        ELSE IF d = "ExpiredSignatureError" THEN "Signature expired"
        ELSE IF d = "InvalidSignatureError" THEN "Invalid signature"
        ELSE "Verification error"

VerifyValid(m, key, t) == VerifyError(m, key, t) = Null

DoVerifyMandate(via, key, id, auth) ==
    IF id \notin MandateIds THEN
        /\ result' = Ret("verify_mandate", via, id, auth, FALSE, FALSE,
                         "NotFound", Null)
        /\ UNCHANGED mandates
    ELSE
        LET m == mandates[id]
            mv == VerifiedMandate(m, key, auth, now) IN
        /\ mandates' = [mandates EXCEPT ![id] = mv]
        /\ result' =
               IF VerifyValid(m, key, now)
               THEN [Ret("verify_mandate", via, id, auth, TRUE, TRUE, Null,
                         mv.status)
                        EXCEPT !.decoded = DecodedPayload(m.token),
                               !.reported = [sub |-> mv.supplier_id,
                                             amount |-> mv.amount,
                                             currency |-> mv.currency]]
               ELSE Ret("verify_mandate", via, id, auth, TRUE, FALSE,
                        VerifyError(m, key, now), Null)

\* execute_payment that only asks for the mandate to exist
DoExecutePaymentNoStatusCheck(via, key, id, po) ==
    IF id \notin MandateIds THEN
        /\ result' = Ret("execute_payment", via, id, po, FALSE, FALSE,
                         "NotFound", Null)
        /\ UNCHANGED mandates
    ELSE
        /\ mandates' = [mandates EXCEPT
                           ![id] = [@ EXCEPT !.status = "executed",
                                             !.executed_at = now,
                                             !.po_number = po]]
        /\ result' = Ret("execute_payment", via, id, po, TRUE, FALSE, Null,
                         "executed")

\* AP2Service.execute_payment
DoExecutePayment(via, key, id, po) ==
    IF id \notin MandateIds THEN
        /\ result' = Ret("execute_payment", via, id, po, FALSE, FALSE,
                         "NotFound", Null)
        /\ UNCHANGED mandates
    ELSE
        LET m == mandates[id] IN
        IF m.status # "verified" /\ m.status # "created" THEN
            /\ result' = Ret("execute_payment", via, id, po, FALSE, FALSE,
                             "InvalidState", Null)
            /\ UNCHANGED mandates
        ELSE IF m.status = "created" /\ ~VerifyValid(m, key, now) THEN
            \* the auto-invoked verify_mandate has committed its verdict
            /\ mandates' = [mandates EXCEPT
                               ![id] = VerifiedMandate(m, key, Null, now)]
            /\ result' = Ret("execute_payment", via, id, po, FALSE, FALSE,
                             "VerificationFailed", Null)
        ELSE
            LET mv == IF m.status = "created"
                      THEN VerifiedMandate(m, key, Null, now) ELSE m IN
            /\ mandates' = [mandates EXCEPT
                               ![id] = [mv EXCEPT !.status = "executed",
                                                  !.executed_at = now,
                                                  !.po_number = po]]
            /\ result' = Ret("execute_payment", via, id, po, TRUE, FALSE, Null,
                             "executed")

\* AP2Service.get_public_key_pem on the instance holding `key`: the PEM
\* text of that instance's public key
DoGetPublicKey(via, key) ==
    /\ result' = [Ret("get_public_key", via, 0, Null, TRUE, FALSE, Null, Null)
                     EXCEPT !.pem = key]
    /\ UNCHANGED mandates

IdArgs(n) == 1..(n + 1)

\* calls on the long-lived service instance
CreateMandate ==
    /\ Len(mandates) < MaxMandates
    /\ \E s \in MandateSupplierArgs, a \in Amounts, c \in BOOLEAN :
           DoCreateMandate("service", ServiceKey, s, a, "USD", c)
    /\ UNCHANGED <<now, nextKey, negVars, calls>>

VerifyMandate ==
    /\ \E id \in IdArgs(Len(mandates)), auth \in MerchantAuths :
           DoVerifyMandate("service", ServiceKey, id, auth)
    /\ UNCHANGED <<now, nextKey, negVars, calls>>

ExecutePayment ==
    /\ \E id \in IdArgs(Len(mandates)), po \in PoNumbers :
           DoExecutePayment("service", ServiceKey, id, po)
    /\ UNCHANGED <<now, nextKey, negVars, calls>>

GetPublicKey ==
    /\ DoGetPublicKey("service", ServiceKey)
    /\ UNCHANGED <<now, nextKey, negVars, calls>>

\* create_mandate over every supplier, amount and currency argument
CreateAnyMandate ==
    /\ Len(mandates) < MaxMandates
    /\ \E s \in Suppliers, a \in RoundTripAmounts, c \in Currencies :
           DoCreateMandate("service", ServiceKey, s, a, c, TRUE)
    /\ UNCHANGED <<now, nextKey, negVars, calls>>

\* a signature that no public key verifies
BadSignature == -1
OtherAudiences == {"other-gateway"}

\* the signed_mandate_json column rewritten outside the service: a byte of
\* the stored token is changed, so its signature no longer verifies
TamperToken ==
    /\ \E id \in MandateIds :
           /\ mandates[id].token.key # BadSignature
           /\ mandates' = [mandates EXCEPT ![id].token.key = BadSignature]
    /\ result' = NoResult
    /\ UNCHANGED <<now, nextKey, negVars, calls>>

\* the stored token replaced by one the key holder signed for another
\* audience
ReplaceAudience ==
    /\ \E id \in MandateIds, aud \in OtherAudiences :
           /\ mandates[id].token.aud # aud
           /\ mandates' = [mandates EXCEPT ![id].token.aud = aud]
    /\ result' = NoResult
    /\ UNCHANGED <<now, nextKey, negVars, calls>>

\* finance_data/server.py execute_tool: each branch builds AP2Service(db),
\* whose __init__ generates a new RSA key pair
ToolCreateMandate ==
    /\ Len(mandates) < MaxMandates
    /\ nextKey <= MaxKeys
    /\ \E s \in MandateSupplierArgs, a \in Amounts,
          present \in BOOLEAN, c \in BOOLEAN :
           DoCreateMandate("tool", nextKey, s, a, "USD",
                           ArgGet(present, c, FALSE))
    /\ nextKey' = nextKey + 1
    /\ UNCHANGED <<now, negVars, calls>>

ToolVerifyMandate ==
    /\ nextKey <= MaxKeys
    /\ \E id \in IdArgs(Len(mandates)), auth \in MerchantAuths :
           DoVerifyMandate("tool", nextKey, id, auth)
    /\ nextKey' = nextKey + 1
    /\ UNCHANGED <<now, negVars, calls>>

ToolExecutePayment ==
    /\ nextKey <= MaxKeys
    /\ \E id \in IdArgs(Len(mandates)), po \in PoNumbers :
           DoExecutePayment("tool", nextKey, id, po)
    /\ nextKey' = nextKey + 1
    /\ UNCHANGED <<now, negVars, calls>>

\* ---------------------------------------------------- negotiation service
NoPrice == -1

\* the status accept_offer stores in a session
CompletedStatus == "completed"

\* Product.unit_cost by asin, in cents
ProductCost == [sku \in {"B001", "B002"} |-> IF sku = "B001" THEN 400 ELSE 403]
\* base_price of request_quote: 5.0 when the product is unknown
FallbackCost == 500
BasePrice(sku) ==
    IF sku \in DOMAIN ProductCost /\ ProductCost[sku] # 0
    THEN ProductCost[sku] ELSE FallbackCost

\* items arguments of create_session
ItemLists == {<< >>, <<[sku |-> "B001", quantity |-> 2]>>}
\* target_discount_percent arguments (0 stands for None as well)
DiscountArgs == {0, 10}
DefaultMaxRounds == 3
\* sampled values of random.uniform(1.05, 1.15), in units of 1/MarkupScale
MarkupScale == 10000
MarkupSamples == {11000}
\* items, markups and counter prices of the pricing runs: a product whose
\* cost times 1.05 is no whole cent, an unknown product, both ends of the
\* markup band, and counter prices on both sides of every threshold
PricingItemLists ==
    {<<[sku |-> "B001", quantity |-> 2]>>, <<[sku |-> "B002", quantity |-> 3]>>,
     <<[sku |-> "ZZZZ", quantity |-> 1]>>}
PricingMarkups == {10500, 11000, 11250, 11500}
PricingCounterPrices == {380, 418, 440}
\* counter_price arguments, in cents
CounterPrices == {380, 420, 500}
Justifications == {"budget"}

SessionIds == 1..Len(sessions)

\* rounds of one (session, supplier) pair, as indices in creation order
PairRounds(rs, sid, sup) ==
    {i \in 1..Len(rs) : rs[i].session_id = sid /\ rs[i].supplier_id = sup}

\* .order_by(round_number.desc()).first(): any round carrying the highest
\* round_number of the pair
LatestRounds(rs, sid, sup) ==
    {i \in PairRounds(rs, sid, sup) :
        \A j \in PairRounds(rs, sid, sup) :
            rs[j].round_number <= rs[i].round_number}

\* target_price is written here and only echoed by the read operations;
\* the session record of the model leaves it out
NewSession(items, max_rounds) ==
    [status |-> "open", items |-> items,
     max_rounds |-> max_rounds, current_round |-> 0,
     winning_supplier_id |-> Null, final_price |-> NoPrice,
     total_value |-> NoPrice, completed_at |-> NoTime]

NewRound(sid, sup, number, offer_type, price, quantity) ==
    [session_id |-> sid, supplier_id |-> sup, round_number |-> number,
     offer_type |-> offer_type, offered_price |-> price,
     total_value |-> price * quantity, counter_price |-> NoPrice,
     justification |-> Null, status |-> "received"]

\* NegotiationService.create_session
DoCreateSession(items, discount, max_rounds) ==
    IF discount # 0 /\ items = << >> THEN
        \* items[0] of an empty list
        /\ result' = Ret("create_session", "service", 0, Null, FALSE, FALSE,
                         "IndexError", Null)
        /\ UNCHANGED <<sessions, rounds>>
    ELSE
        /\ sessions' = Append(sessions, NewSession(items, max_rounds))
        /\ result' = Ret("create_session", "service", Len(sessions) + 1, Null,
                         TRUE, FALSE, Null, "open")
        /\ UNCHANGED rounds

\* request_quote that appends the round and leaves current_round alone
DoRequestQuoteNoAdvance(sid, sup, markup) ==
    IF sid \notin SessionIds \/ sup \notin Suppliers THEN
        /\ result' = Ret("request_quote", "service", sid, sup, FALSE, FALSE,
                         "NotFound", Null)
        /\ UNCHANGED <<sessions, rounds>>
    ELSE IF sessions[sid].items = << >> THEN
        /\ result' = Ret("request_quote", "service", sid, sup, FALSE, FALSE,
                         "IndexError", Null)
        /\ UNCHANGED <<sessions, rounds>>
    ELSE
        LET item == sessions[sid].items[1]
            round_number == sessions[sid].current_round + 1 IN
        \E price \in Rounded(BasePrice(item.sku) * markup, MarkupScale) :
            /\ rounds' = Append(rounds, NewRound(sid, sup, round_number,
                                    "initial", price, item.quantity))
            /\ UNCHANGED sessions
            /\ result' = Ret("request_quote", "service", sid, sup, TRUE, FALSE,
                             Null, "received")

\* request_quote that does not look the supplier up
DoRequestQuoteAnySupplier(sid, sup, markup) ==
    IF sid \notin SessionIds THEN
        /\ result' = Ret("request_quote", "service", sid, sup, FALSE, FALSE,
                         "NotFound", Null)
        /\ UNCHANGED <<sessions, rounds>>
    ELSE IF sessions[sid].items = << >> THEN
        /\ result' = Ret("request_quote", "service", sid, sup, FALSE, FALSE,
                         "IndexError", Null)
        /\ UNCHANGED <<sessions, rounds>>
    ELSE
        LET item == sessions[sid].items[1]
            round_number == sessions[sid].current_round + 1 IN
        \E price \in Rounded(BasePrice(item.sku) * markup, MarkupScale) :
            /\ rounds' = Append(rounds, NewRound(sid, sup, round_number,
                                    "initial", price, item.quantity))
            /\ sessions' = [sessions EXCEPT
                               ![sid].current_round = round_number]
            /\ result' = Ret("request_quote", "service", sid, sup, TRUE, FALSE,
                             Null, "received")

\* request_quote that turns a round beyond max_rounds down
DoRequestQuoteWithinMaxRounds(sid, sup, markup) ==
    IF sid \notin SessionIds \/ sup \notin Suppliers THEN
        /\ result' = Ret("request_quote", "service", sid, sup, FALSE, FALSE,
                         "NotFound", Null)
        /\ UNCHANGED <<sessions, rounds>>
    ELSE IF sessions[sid].current_round >= sessions[sid].max_rounds THEN
        /\ result' = Ret("request_quote", "service", sid, sup, FALSE, FALSE,
                         "InvalidState", Null)
        /\ UNCHANGED <<sessions, rounds>>
    ELSE IF sessions[sid].items = << >> THEN
        /\ result' = Ret("request_quote", "service", sid, sup, FALSE, FALSE,
                         "IndexError", Null)
        /\ UNCHANGED <<sessions, rounds>>
    ELSE
        LET item == sessions[sid].items[1]
            round_number == sessions[sid].current_round + 1 IN
        \E price \in Rounded(BasePrice(item.sku) * markup, MarkupScale) :
            /\ rounds' = Append(rounds, NewRound(sid, sup, round_number,
                                    "initial", price, item.quantity))
            /\ sessions' = [sessions EXCEPT
                               ![sid].current_round = round_number]
            /\ result' = Ret("request_quote", "service", sid, sup, TRUE, FALSE,
                             Null, "received")

\* NegotiationService.request_quote
DoRequestQuote(sid, sup, markup) ==
    IF sid \notin SessionIds \/ sup \notin Suppliers THEN
        /\ result' = Ret("request_quote", "service", sid, sup, FALSE, FALSE,
                         "NotFound", Null)
        /\ UNCHANGED <<sessions, rounds>>
    ELSE IF sessions[sid].items = << >> THEN
        /\ result' = Ret("request_quote", "service", sid, sup, FALSE, FALSE,
                         "IndexError", Null)
        /\ UNCHANGED <<sessions, rounds>>
    ELSE
        LET item == sessions[sid].items[1]
            round_number == sessions[sid].current_round + 1 IN
        \E price \in Rounded(BasePrice(item.sku) * markup, MarkupScale) :
            /\ rounds' = Append(rounds, NewRound(sid, sup, round_number,
                                    "initial", price, item.quantity))
            /\ sessions' = [sessions EXCEPT
                               ![sid].current_round = round_number]
            /\ result' = Ret("request_quote", "service", sid, sup, TRUE, FALSE,
                             Null, "received")

\* the branches (1..4) of submit_counter's decision logic that the float
\* discount_requested can take: where the exact quotient sits on a threshold
\* the float value is the threshold or a neighbour of it, so the branch of
\* either side is possible
CounterBranches(their_price, counter_price) ==
    LET d100 == (their_price - counter_price) * 100 IN
    {b \in 1..4 :
        /\ b = 1 => d100 <= 5 * their_price
        /\ b = 2 => d100 >= 5 * their_price /\ d100 <= 10 * their_price
        /\ b = 3 => d100 >= 10 * their_price /\ d100 <= 15 * their_price
        /\ b = 4 => d100 >= 15 * their_price}

\* new_offered_price of one branch: the possible values (one unless a
\* rounding tie)
BranchPrice(b, their_price, counter_price) ==
    IF b = 1 THEN {counter_price}
    ELSE IF b = 2 THEN Rounded(their_price + counter_price, 2)
    ELSE IF b = 3 THEN Rounded(their_price * 95, 100)
    ELSE Rounded(their_price * 97, 100)

\* response_status of one branch
BranchStatus(b) == IF b = 1 THEN "accepted" ELSE "countered"

\* the supplier's simulated answer to a counter-offer: the possible
\* (new_offered_price, response_status) pairs
CounterResponse(their_price, counter_price) ==
    UNION {{[price |-> p, status |-> BranchStatus(b)] :
               p \in BranchPrice(b, their_price, counter_price)} :
           b \in CounterBranches(their_price, counter_price)}

\* submit_counter that appends the answer and leaves the prior round alone
DoSubmitCounterKeepPrior(sid, sup, counter_price, justification) ==
    IF sid \notin SessionIds THEN
        /\ result' = Ret("submit_counter", "service", sid, sup, FALSE, FALSE,
                         "NotFound", Null)
        /\ UNCHANGED <<sessions, rounds>>
    ELSE IF LatestRounds(rounds, sid, sup) = {} THEN
        /\ result' = Ret("submit_counter", "service", sid, sup, FALSE, FALSE,
                         "InvalidState", Null)
        /\ UNCHANGED <<sessions, rounds>>
    ELSE
        \E i \in LatestRounds(rounds, sid, sup) :
            LET latest == rounds[i]
                their_price == latest.offered_price IN
            IF their_price = 0 THEN
                /\ result' = Ret("submit_counter", "service", sid, sup, FALSE,
                                 FALSE, "ZeroDivisionError", Null)
                /\ UNCHANGED <<sessions, rounds>>
            ELSE
                \E answer \in CounterResponse(their_price, counter_price) :
                    /\ rounds' = Append(
                           rounds,
                           NewRound(sid, sup, latest.round_number + 1,
                                    "counter", answer.price,
                                    sessions[sid].items[1].quantity))
                    /\ sessions' = [sessions EXCEPT
                           ![sid].current_round = latest.round_number + 1]
                    /\ result' = Ret("submit_counter", "service", sid, sup,
                           TRUE, FALSE, Null, answer.status)

\* NegotiationService.submit_counter
DoSubmitCounter(sid, sup, counter_price, justification) ==
    IF sid \notin SessionIds THEN
        /\ result' = Ret("submit_counter", "service", sid, sup, FALSE, FALSE,
                         "NotFound", Null)
        /\ UNCHANGED <<sessions, rounds>>
    ELSE IF LatestRounds(rounds, sid, sup) = {} THEN
        /\ result' = Ret("submit_counter", "service", sid, sup, FALSE, FALSE,
                         "InvalidState", Null)
        /\ UNCHANGED <<sessions, rounds>>
    ELSE
        \E i \in LatestRounds(rounds, sid, sup) :
            LET latest == rounds[i]
                their_price == latest.offered_price IN
            IF their_price = 0 THEN
                /\ result' = Ret("submit_counter", "service", sid, sup, FALSE,
                                 FALSE, "ZeroDivisionError", Null)
                /\ UNCHANGED <<sessions, rounds>>
            ELSE
                \E answer \in CounterResponse(their_price, counter_price) :
                    /\ rounds' = Append(
                           [rounds EXCEPT
                               ![i].counter_price = counter_price,
                               ![i].justification = justification,
                               ![i].status = "countered"],
                           NewRound(sid, sup, latest.round_number + 1,
                                    "counter", answer.price,
                                    sessions[sid].items[1].quantity))
                    /\ sessions' = [sessions EXCEPT
                           ![sid].current_round = latest.round_number + 1]
                    /\ result' = Ret("submit_counter", "service", sid, sup,
                           TRUE, FALSE, Null, answer.status)

\* NegotiationService.accept_offer
DoAcceptOffer(sid, sup) ==
    IF sid \notin SessionIds THEN
        /\ result' = Ret("accept_offer", "service", sid, sup, FALSE, FALSE,
                         "NotFound", Null)
        /\ UNCHANGED <<sessions, rounds>>
    ELSE IF LatestRounds(rounds, sid, sup) = {} THEN
        /\ result' = Ret("accept_offer", "service", sid, sup, FALSE, FALSE,
                         "InvalidState", Null)
        /\ UNCHANGED <<sessions, rounds>>
    ELSE
        \E i \in LatestRounds(rounds, sid, sup) :
            IF rounds[i].offered_price = 0 THEN
                /\ result' = Ret("accept_offer", "service", sid, sup, FALSE,
                                 FALSE, "InvalidState", Null)
                /\ UNCHANGED <<sessions, rounds>>
            ELSE
                /\ sessions' = [sessions EXCEPT
                       ![sid].status = CompletedStatus,
                       ![sid].winning_supplier_id = sup,
                       ![sid].final_price = rounds[i].offered_price,
                       ![sid].total_value = rounds[i].total_value,
                       ![sid].completed_at = now]
                /\ rounds' = [rounds EXCEPT ![i].status = "accepted"]
                /\ result' = Ret("accept_offer", "service", sid, sup, TRUE,
                                 FALSE, Null, CompletedStatus)

\* criteria arguments of compare_offers; anything else ranks as total_cost
Criteria == {"price", "quality_adjusted", "total_cost"}

\* Supplier.quality_rating in tenths and on_time_delivery_rate in percent
\* (0 for None); the defaults compare_offers puts in their place
QualityRating == [s \in Suppliers |-> IF s = "SUP1" THEN 45 ELSE 0]
OnTimeRate == [s \in Suppliers |-> IF s = "SUP1" THEN 95 ELSE 0]
QualityFactor(s) == IF QualityRating[s] # 0 THEN QualityRating[s] ELSE 30
DeliveryFactor(s) == IF OnTimeRate[s] # 0 THEN OnTimeRate[s] ELSE 80

\* the rounds compare_offers looks at for one supplier
ReceivedRounds(rs, sid, sup) ==
    {i \in PairRounds(rs, sid, sup) :
        rs[i].status = "received" /\ rs[i].offered_price > 0}

\* the round whose offer stays in latest_offers[sup]: one of the highest
\* round_number among the received rounds (the first met where several
\* carry it, in the unspecified row order of the query)
LatestReceived(rs, sid, sup) ==
    {i \in ReceivedRounds(rs, sid, sup) :
        \A j \in ReceivedRounds(rs, sid, sup) :
            rs[j].round_number <= rs[i].round_number}

OfferOf(r) ==
    [supplier_id |-> r.supplier_id, offered_price |-> r.offered_price,
     total_value |-> r.total_value, round_number |-> r.round_number]

\* sort key order of two offers under a criteria
RankedBefore(a, b, criteria) ==
    IF criteria = "price" THEN a.offered_price <= b.offered_price
    ELSE IF criteria = "quality_adjusted"
    THEN a.offered_price * QualityFactor(b.supplier_id)
                         * DeliveryFactor(b.supplier_id)
         <= b.offered_price * QualityFactor(a.supplier_id)
                            * DeliveryFactor(a.supplier_id)
    ELSE a.total_value <= b.total_value

\* the possible ranked_suppliers lists of compare_offers: one offer per
\* supplier that has a received round, in sort order
CompareOffers(rs, sid, criteria) ==
    LET sups == {sup \in Suppliers : ReceivedRounds(rs, sid, sup) # {}}
        picks == [sups -> 1..Len(rs)]
        n == Cardinality(sups) IN
    {ranked \in [1..n -> {OfferOf(rs[i]) : i \in 1..Len(rs)}] :
        /\ \E pick \in picks :
               /\ \A sup \in sups : pick[sup] \in LatestReceived(rs, sid, sup)
               /\ {ranked[k] : k \in 1..n} =
                      {OfferOf(rs[pick[sup]]) : sup \in sups}
        /\ \A k, l \in 1..n :
               k < l => /\ ranked[k].supplier_id # ranked[l].supplier_id
                        /\ RankedBefore(ranked[k], ranked[l], criteria)}

\* NegotiationService.compare_offers
DoCompareOffers(sid, criteria) ==
    IF sid \notin SessionIds THEN
        /\ result' = Ret("compare_offers", "service", sid, criteria, FALSE,
                         FALSE, "NotFound", Null)
        /\ UNCHANGED <<sessions, rounds>>
    ELSE
        /\ \E ranked \in CompareOffers(rounds, sid, criteria) :
               result' = [Ret("compare_offers", "service", sid, criteria,
                              TRUE, FALSE, Null, Null)
                            EXCEPT !.ranked = ranked,
                                   !.best = IF ranked = << >> THEN NoOffer
                                            ELSE ranked[1]]
        /\ UNCHANGED <<sessions, rounds>>

\* `float(x) if x else None` of get_status: a zero price reads as None
StatusValue(x) == IF x = 0 THEN NoPrice ELSE x

\* the session fields of get_status' dict
SessionData(s) ==
    [status |-> s.status, items |-> s.items, max_rounds |-> s.max_rounds,
     current_round |-> s.current_round,
     winning_supplier_id |-> s.winning_supplier_id,
     final_price |-> StatusValue(s.final_price),
     total_value |-> StatusValue(s.total_value),
     completed_at |-> s.completed_at]

\* one entry of rounds_data
RoundData(r) ==
    [supplier_id |-> r.supplier_id, round_number |-> r.round_number,
     offer_type |-> r.offer_type,
     offered_price |-> StatusValue(r.offered_price),
     total_value |-> StatusValue(r.total_value),
     counter_price |-> StatusValue(r.counter_price),
     justification |-> r.justification, status |-> r.status]

\* .filter_by(session_id).order_by(round_number, created_at).all(): the
\* rows of the session by round_number and, within one round_number, in
\* the order they were inserted (created_at is the insert time of the row)
OrderedRounds(rs, sid) ==
    LET idx == {i \in 1..Len(rs) : rs[i].session_id = sid}
        before(i, j) ==
            \/ rs[i].round_number < rs[j].round_number
            \/ rs[i].round_number = rs[j].round_number /\ i < j
        pos(i) == Cardinality({j \in idx : before(j, i)}) + 1 IN
    [k \in 1..Cardinality(idx) |-> rs[CHOOSE i \in idx : pos(i) = k]]

\* get_status that lists the rounds in table order
DoGetStatusUnordered(sid) ==
    IF sid \notin SessionIds THEN
        /\ result' = Ret("get_status", "service", sid, Null, FALSE, FALSE,
                         "NotFound", Null)
        /\ UNCHANGED <<sessions, rounds>>
    ELSE
        LET listed == SelectSeq(rounds, LAMBDA r : r.session_id = sid) IN
        /\ result' = [Ret("get_status", "service", sid, Null, TRUE, FALSE,
                          Null, sessions[sid].status)
                         EXCEPT !.session = SessionData(sessions[sid]),
                                !.rounds = [k \in 1..Len(listed) |->
                                               RoundData(listed[k])]]
        /\ UNCHANGED <<sessions, rounds>>

\* NegotiationService.get_status
DoGetStatus(sid) ==
    IF sid \notin SessionIds THEN
        /\ result' = Ret("get_status", "service", sid, Null, FALSE, FALSE,
                         "NotFound", Null)
        /\ UNCHANGED <<sessions, rounds>>
    ELSE
        LET listed == OrderedRounds(rounds, sid) IN
        /\ result' = [Ret("get_status", "service", sid, Null, TRUE, FALSE,
                          Null, sessions[sid].status)
                         EXCEPT !.session = SessionData(sessions[sid]),
                                !.rounds = [k \in 1..Len(listed) |->
                                               RoundData(listed[k])]]
        /\ UNCHANGED <<sessions, rounds>>

GetStatus ==
    /\ \E sid \in IdArgs(Len(sessions)) : DoGetStatus(sid)
    /\ UNCHANGED <<now, ap2Vars, calls>>

CompareOffersCall ==
    /\ \E sid \in IdArgs(Len(sessions)), criteria \in Criteria :
           DoCompareOffers(sid, criteria)
    /\ UNCHANGED <<now, ap2Vars, calls>>

CreateSession ==
    /\ Len(sessions) < MaxSessions
    /\ \E items \in ItemLists, discount \in DiscountArgs :
           DoCreateSession(items, discount, DefaultMaxRounds)
    /\ UNCHANGED <<now, ap2Vars, calls>>

RequestQuoteWithin(limit) ==
    /\ Len(rounds) < limit
    /\ \E sid \in IdArgs(Len(sessions)), sup \in SupplierArgs,
          markup \in MarkupSamples :
           DoRequestQuote(sid, sup, markup)
    /\ UNCHANGED <<now, ap2Vars, calls>>

SubmitCounterWithin(limit) ==
    /\ Len(rounds) < limit
    /\ \E sid \in IdArgs(Len(sessions)), sup \in SupplierArgs,
          cp \in CounterPrices, j \in Justifications :
           DoSubmitCounter(sid, sup, cp, j)
    /\ UNCHANGED <<now, ap2Vars, calls>>

\* max_rounds arguments of create_session (the tool schema allows 1..5)
MaxRoundsArgs == {1, 3}

\* sessions of the runs over several sessions: one item, either max_rounds
CreateSessionOf ==
    /\ Len(sessions) < MaxFrameSessions
    /\ \E items \in ItemLists \ {<< >>}, max_rounds \in MaxRoundsArgs :
           DoCreateSession(items, 0, max_rounds)
    /\ UNCHANGED <<now, ap2Vars, calls>>

\* quotes and counter-offers over known sessions and suppliers, one markup
\* and one counter price
ReadCounterPrices == {420}

KnownRequestQuoteWithin(limit) ==
    /\ Len(rounds) < limit
    /\ \E sid \in SessionIds, sup \in Suppliers, markup \in MarkupSamples :
           DoRequestQuote(sid, sup, markup)
    /\ UNCHANGED <<now, ap2Vars, calls>>

KnownSubmitCounterWithin(limit) ==
    /\ Len(rounds) < limit
    /\ \E sid \in SessionIds, sup \in Suppliers,
          cp \in ReadCounterPrices, j \in Justifications :
           DoSubmitCounter(sid, sup, cp, j)
    /\ UNCHANGED <<now, ap2Vars, calls>>

\* in the runs that read the sessions back
ReadRequestQuote == KnownRequestQuoteWithin(MaxReadRounds)

ReadSubmitCounter == KnownSubmitCounterWithin(MaxReadRounds)

\* in the runs over several sessions
FrameRequestQuote == KnownRequestQuoteWithin(MaxFrameRounds)

FrameSubmitCounter == KnownSubmitCounterWithin(MaxFrameRounds)

\* the same three calls over the arguments of the pricing runs
CreateAnySession ==
    /\ Len(sessions) < MaxSessions
    /\ \E items \in PricingItemLists :
           DoCreateSession(items, 0, DefaultMaxRounds)
    /\ UNCHANGED <<now, ap2Vars, calls>>

RequestAnyQuote ==
    /\ Len(rounds) < MaxPricingRounds
    /\ \E sid \in SessionIds, sup \in Suppliers, markup \in PricingMarkups :
           DoRequestQuote(sid, sup, markup)
    /\ UNCHANGED <<now, ap2Vars, calls>>

SubmitAnyCounter ==
    /\ Len(rounds) < MaxPricingRounds
    /\ \E sid \in SessionIds, sup \in Suppliers,
          cp \in PricingCounterPrices, j \in Justifications :
           DoSubmitCounter(sid, sup, cp, j)
    /\ UNCHANGED <<now, ap2Vars, calls>>

RequestQuote == RequestQuoteWithin(MaxRounds)

SubmitCounter == SubmitCounterWithin(MaxRounds)

\* the same two calls in the longer runs of SpecRounds
DeepRequestQuote == RequestQuoteWithin(MaxDeepRounds)

DeepSubmitCounter == SubmitCounterWithin(MaxDeepRounds)

AcceptOffer ==
    /\ \E sid \in IdArgs(Len(sessions)), sup \in SupplierArgs :
           DoAcceptOffer(sid, sup)
    /\ UNCHANGED <<now, ap2Vars, calls>>

\* tool names the supplier MCP server has no branch for
UnlistedTools == {"cancel_negotiation_session"}

\* execute_tool with a tool name outside its branches: the final else raises
\* ValueError("Unknown tool: ...") before anything is read or written
DoUnknownTool(tool_name, sid) ==
    /\ result' = Ret(tool_name, "tool", sid, Null, FALSE, FALSE,
                     "UnknownTool", Null)
    /\ UNCHANGED <<sessions, rounds>>

\* a request to cancel a session
CancelSession ==
    /\ \E tool_name \in UnlistedTools, sid \in IdArgs(Len(sessions)) :
           DoUnknownTool(tool_name, sid)
    /\ UNCHANGED <<now, ap2Vars, calls>>

\* ------------------------------------------------------ overlapping calls
\* Every request works on its own database session: what a call has read
\* stays in its ORM objects until its commit writes the assigned columns.
\* A call in flight is: pc (idle, read, done), the operation and its
\* arguments, the row values it has read, whether it returned normally, and
\* whether another call on the same row committed after this one had read.
Procs == 1..MaxCalls

IdleCall ==
    [pc |-> "idle", op |-> "none", id |-> 0, arg |-> Null, round |-> 0,
     price |-> NoPrice, total |-> NoPrice, ok |-> FALSE, raced |-> FALSE]

ReadCall(op, id, arg, round, price, total) ==
    [pc |-> "read", op |-> op, id |-> id, arg |-> arg, round |-> round,
     price |-> price, total |-> total, ok |-> FALSE, raced |-> FALSE]

FailedCall(op, id, arg) ==
    [pc |-> "done", op |-> op, id |-> id, arg |-> arg, round |-> 0,
     price |-> NoPrice, total |-> NoPrice, ok |-> FALSE, raced |-> FALSE]

\* calls after p has committed: p is done, and the calls that had read the
\* same row before this commit have been overtaken
Committed(p) ==
    [q \in Procs |->
        IF q = p THEN [calls[p] EXCEPT !.pc = "done", !.ok = TRUE]
        ELSE IF /\ calls[q].pc = "read"
                /\ calls[q].op = calls[p].op
                /\ calls[q].id = calls[p].id
             THEN [calls[q] EXCEPT !.raced = TRUE]
             ELSE calls[q]]

\* accept_offer up to its guard: the two queries and the check of the round
AcceptOfferRead(p) ==
    /\ calls[p].pc = "idle"
    /\ \E sid \in SessionIds, sup \in Suppliers :
           IF LatestRounds(rounds, sid, sup) = {} THEN
               /\ calls' = [calls EXCEPT
                               ![p] = FailedCall("accept_offer", sid, sup)]
               /\ result' = Ret("accept_offer", "service", sid, sup, FALSE,
                                FALSE, "InvalidState", Null)
           ELSE
               \E i \in LatestRounds(rounds, sid, sup) :
                   IF rounds[i].offered_price = 0 THEN
                       /\ calls' = [calls EXCEPT
                              ![p] = FailedCall("accept_offer", sid, sup)]
                       /\ result' = Ret("accept_offer", "service", sid, sup,
                                        FALSE, FALSE, "InvalidState", Null)
                   ELSE
                       /\ calls' = [calls EXCEPT
                              ![p] = ReadCall("accept_offer", sid, sup, i,
                                              rounds[i].offered_price,
                                              rounds[i].total_value)]
                       /\ result' = NoResult
    /\ UNCHANGED <<now, ap2Vars, negVars>>

\* accept_offer from its assignments to db.commit()
AcceptOfferCommit(p) ==
    /\ calls[p].pc = "read"
    /\ calls[p].op = "accept_offer"
    /\ sessions' = [sessions EXCEPT
           ![calls[p].id].status = CompletedStatus,
           ![calls[p].id].winning_supplier_id = calls[p].arg,
           ![calls[p].id].final_price = calls[p].price,
           ![calls[p].id].total_value = calls[p].total,
           ![calls[p].id].completed_at = now]
    /\ rounds' = [rounds EXCEPT ![calls[p].round].status = "accepted"]
    /\ calls' = Committed(p)
    /\ result' = Ret("accept_offer", "service", calls[p].id, calls[p].arg,
                     TRUE, FALSE, Null, CompletedStatus)
    /\ UNCHANGED <<now, ap2Vars>>

AcceptRead == \E p \in Procs : AcceptOfferRead(p)

AcceptCommit == \E p \in Procs : AcceptOfferCommit(p)

\* request_quote up to its assignments: the queries, the price and
\* round_number = session.current_round + 1 as this call has read it
RequestQuoteRead(p) ==
    /\ calls[p].pc = "idle"
    /\ \E sid \in SessionIds, sup \in Suppliers, markup \in MarkupSamples :
           IF sessions[sid].items = << >> THEN
               /\ calls' = [calls EXCEPT
                               ![p] = FailedCall("request_quote", sid, sup)]
               /\ result' = Ret("request_quote", "service", sid, sup, FALSE,
                                FALSE, "IndexError", Null)
           ELSE
               LET item == sessions[sid].items[1] IN
               \E price \in Rounded(BasePrice(item.sku) * markup, MarkupScale) :
                   /\ calls' = [calls EXCEPT
                          ![p] = ReadCall("request_quote", sid, sup,
                                          sessions[sid].current_round + 1,
                                          price, price * item.quantity)]
                   /\ result' = NoResult
    /\ UNCHANGED <<now, ap2Vars, negVars>>

\* request_quote from session.current_round = round_number to db.commit()
RequestQuoteCommit(p) ==
    /\ calls[p].pc = "read"
    /\ calls[p].op = "request_quote"
    /\ rounds' = Append(rounds,
           NewRound(calls[p].id, calls[p].arg, calls[p].round, "initial",
                    calls[p].price, sessions[calls[p].id].items[1].quantity))
    /\ sessions' = [sessions EXCEPT
           ![calls[p].id].current_round = calls[p].round]
    /\ calls' = Committed(p)
    /\ result' = Ret("request_quote", "service", calls[p].id, calls[p].arg,
                     TRUE, FALSE, Null, "received")
    /\ UNCHANGED <<now, ap2Vars>>

QuoteRead == \E p \in Procs : RequestQuoteRead(p)

QuoteCommit == \E p \in Procs : RequestQuoteCommit(p)

\* execute_payment up to its guard: the query, the status check and the
\* verify_mandate call it makes for a mandate still in status created
ExecutePaymentRead(p) ==
    /\ calls[p].pc = "idle"
    /\ \E id \in MandateIds, po \in PoNumbers :
           LET m == mandates[id] IN
           IF m.status # "verified" /\ m.status # "created" THEN
               /\ calls' = [calls EXCEPT
                               ![p] = FailedCall("execute_payment", id, po)]
               /\ result' = Ret("execute_payment", "service", id, po, FALSE,
                                FALSE, "InvalidState", Null)
               /\ UNCHANGED mandates
           ELSE IF m.status = "created" /\ ~VerifyValid(m, ServiceKey, now) THEN
               /\ calls' = [calls EXCEPT
                               ![p] = FailedCall("execute_payment", id, po)]
               /\ mandates' = [mandates EXCEPT
                      ![id] = VerifiedMandate(m, ServiceKey, Null, now)]
               /\ result' = Ret("execute_payment", "service", id, po, FALSE,
                                FALSE, "VerificationFailed", Null)
           ELSE
               /\ calls' = [calls EXCEPT
                               ![p] = ReadCall("execute_payment", id, po, 0,
                                               NoPrice, NoPrice)]
               /\ result' = NoResult
               /\ UNCHANGED mandates
    /\ UNCHANGED <<now, nextKey, negVars>>

\* execute_payment from its assignments to db.commit()
ExecutePaymentCommit(p) ==
    /\ calls[p].pc = "read"
    /\ calls[p].op = "execute_payment"
    /\ mandates' = [mandates EXCEPT
           ![calls[p].id].status = "executed",
           ![calls[p].id].executed_at = now,
           ![calls[p].id].po_number = calls[p].arg]
    /\ calls' = Committed(p)
    /\ result' = Ret("execute_payment", "service", calls[p].id, calls[p].arg,
                     TRUE, FALSE, Null, "executed")
    /\ UNCHANGED <<now, nextKey, negVars>>

ExecuteRead == \E p \in Procs : ExecutePaymentRead(p)

ExecuteCommit == \E p \in Procs : ExecutePaymentCommit(p)

\* datetime.utcnow() / datetime.now() advance between calls
Tick ==
    /\ now < MaxTime
    /\ now' = now + 1
    /\ result' = NoResult
    /\ UNCHANGED <<nextKey, mandates, sessions, rounds, calls>>

Init ==
    /\ now = 0
    /\ nextKey = 1
    /\ mandates = << >>
    /\ result = NoResult
    /\ sessions = << >>
    /\ rounds = << >>
    /\ calls = [p \in Procs |-> IdleCall]

\* one AP2Service instance serving every call
NextAP2 ==
    \/ CreateMandate
    \/ VerifyMandate
    \/ ExecutePayment
    \/ Tick

SpecAP2 == Init /\ [][NextAP2]_vars

\* the finance MCP server: one AP2Service instance per tool call
NextTool ==
    \/ ToolCreateMandate
    \/ ToolVerifyMandate
    \/ ToolExecutePayment
    \/ Tick

SpecTool == Init /\ [][NextTool]_vars

\* the negotiation engine, all calls made at one instant
NextNeg ==
    \/ CreateSession
    \/ RequestQuote
    \/ SubmitCounter
    \/ AcceptOffer

SpecNeg == Init /\ [][NextNeg]_vars

\* longer interleavings of quotes and counter-offers over the suppliers
NextRounds ==
    \/ CreateSession
    \/ DeepRequestQuote
    \/ DeepSubmitCounter

SpecRounds == Init /\ [][NextRounds]_vars

\* the negotiation engine with its comparison of offers
NextCompare ==
    \/ CreateSession
    \/ RequestQuote
    \/ SubmitCounter
    \/ AcceptOffer
    \/ CompareOffersCall

SpecCompare == Init /\ [][NextCompare]_vars

\* quotes and counter-offers over the product costs, markups and prices
NextPricing ==
    \/ CreateAnySession
    \/ RequestAnyQuote
    \/ SubmitAnyCounter

SpecPricing == Init /\ [][NextPricing]_vars

\* stored tokens of every argument combination, intact or altered
NextToken ==
    \/ CreateAnyMandate
    \/ VerifyMandate
    \/ TamperToken
    \/ ReplaceAudience
    \/ Tick

SpecToken == Init /\ [][NextToken]_vars

\* accept_offer calls of separate requests overlapping on one session
NextAccept ==
    \/ CreateSession
    \/ RequestQuote
    \/ SubmitCounter
    \/ AcceptRead
    \/ AcceptCommit

SpecAccept == Init /\ [][NextAccept]_vars

\* execute_payment calls of separate requests overlapping on one mandate
NextExecute ==
    \/ CreateMandate
    \/ VerifyMandate
    \/ ExecuteRead
    \/ ExecuteCommit
    \/ Tick

SpecExecute == Init /\ [][NextExecute]_vars

\* the negotiation engine behind the tool dispatcher, cancel requests
\* included
NextCancel ==
    \/ CreateSession
    \/ RequestQuote
    \/ SubmitCounter
    \/ AcceptOffer
    \/ CancelSession

SpecCancel == Init /\ [][NextCancel]_vars

\* the read operations next to the calls that write what they read
NextReads ==
    \/ CreateSession
    \/ ReadRequestQuote
    \/ ReadSubmitCounter
    \/ GetStatus
    \/ CreateMandate
    \/ GetPublicKey

SpecReads == Init /\ [][NextReads]_vars

\* quotes and counter-offers over several sessions of differing max_rounds
NextFrame ==
    \/ CreateSessionOf
    \/ FrameRequestQuote
    \/ FrameSubmitCounter

SpecFrame == Init /\ [][NextFrame]_vars

\* request_quote calls of separate requests overlapping on one session
NextQuote ==
    \/ CreateSession
    \/ RequestQuote
    \/ QuoteRead
    \/ QuoteCommit

SpecQuote == Init /\ [][NextQuote]_vars

\* ---------------------------------------------------------------- claims
\* status order of the mandate life cycle
MandateForward(a, b) ==
    \/ a = b
    \/ /\ a \notin TerminalMandateStatus
       /\ \/ a = "created" /\ b \in {"verified", "executed", "expired"}
          \/ a = "verified" /\ b \in {"executed", "expired"}
          \/ b = "failed"

\* C1: a mandate's status only moves forward (created -> verified ->
\* executed, created|verified -> expired, any non-terminal -> failed) and
\* once executed, expired or failed no operation changes it.
C1_StatusForwardOnly ==
    [][\A id \in MandateIds :
          MandateForward(mandates[id].status, mandates'[id].status)]_vars

\* C2: ExecutePayment executes (status executed, executed_at and po_number
\* recorded) only from verified, or from created when the auto-invoked
\* verification is valid; on an executed, expired or failed mandate it fails
\* with InvalidState and changes nothing; when the auto-invoked verification
\* is not valid it fails and the mandate is not executed.
C2_ExecutePaymentGuard ==
    [][(result'.op = "execute_payment" /\ result'.id \in MandateIds) =>
          LET m == mandates[result'.id]
              m2 == mandates'[result'.id] IN
          /\ result'.ok =>
                 /\ \/ m.status = "verified"
                    \/ m.status = "created" /\ now <= m.expires_at
                       /\ JwtDecode(m.token, ServiceKey, now) = "ok"
                 /\ m2.status = "executed"
                 /\ m2.executed_at = now
                 /\ m2.po_number = result'.arg
          /\ ~result'.ok =>
                 /\ m2.executed_at = m.executed_at
                 /\ m2.po_number = m.po_number
                 /\ m2.status = "executed" => m.status = "executed"
          /\ m.status \in TerminalMandateStatus =>
                 /\ ~result'.ok
                 /\ result'.error = "InvalidState"
                 /\ m2 = m
          /\ (m.status = "created" /\ ~VerifyValid(m, ServiceKey, now)) =>
                 /\ ~result'.ok
                 /\ m2.status # "executed"]_vars

\* a second ExecutePayment on an executed mandate has been rejected
C2_Witness ==
    /\ result.op = "execute_payment"
    /\ result.error = "InvalidState"
    /\ result.id \in MandateIds
    /\ mandates[result.id].status = "executed"
    /\ mandates[result.id].po_number # result.arg

\* C3: CreateMandate without consent (also with user_consent omitted at the
\* tool boundary) fails with PermissionDenied and persists nothing; every
\* stored mandate was created with consent and starts in status created.
C3_ConsentRequired ==
    [][/\ (result'.op = "create_mandate" /\ ~result'.consent) =>
             /\ ~result'.ok
             /\ result'.error = "PermissionDenied"
             /\ mandates' = mandates
       /\ \A id \in 1..Len(mandates') :
             mandates'[id].token.user_consent = TRUE
       /\ Len(mandates') > Len(mandates) =>
             /\ result'.op = "create_mandate"
             /\ result'.consent
             /\ mandates'[Len(mandates')].status = "created"]_vars

\* a tool call without consent was refused while the store is still empty
C3_Witness ==
    /\ result.op = "create_mandate"
    /\ result.via = "tool"
    /\ result.arg \in Suppliers
    /\ ~result.consent
    /\ result.error = "PermissionDenied"
    /\ mandates = << >>

\* C4: a verify_payment_mandate tool call made before expiry on a mandate
\* created by a create_payment_mandate tool call returns valid=true, and an
\* execute_payment_with_mandate tool call then returns status executed.
C4_ToolFlowSucceeds ==
    [][(result'.via = "tool" /\ result'.id \in MandateIds
        /\ mandates[result'.id].status \in {"created", "verified"}
        /\ now < mandates[result'.id].token.exp) =>
          /\ result'.op = "verify_mandate" => result'.valid
          /\ result'.op = "execute_payment" =>
                 result'.ok /\ result'.status = "executed"]_vars

\* C5: VerifyMandate later than expires_at sets status expired and returns
\* valid=false without looking at the signature; not later than expires_at
\* it does not report an untampered mandate as expired.
C5_ExpiryBoundary ==
    [][(result'.op = "verify_mandate" /\ result'.id \in MandateIds) =>
          LET m == mandates[result'.id]
              m2 == mandates'[result'.id] IN
          /\ now > m.expires_at =>
                 /\ m2.status = "expired"
                 /\ ~result'.valid
                 /\ result'.error = "Mandate expired"
          /\ (now <= m.expires_at /\ m.status # "expired") =>
                 /\ m2.status # "expired"
                 /\ result'.error \notin {"Mandate expired",
                                          "Signature expired"}]_vars

\* highest round_number issued so far in a session (0 when there is none)
HighestRoundNumber(rs, sid) ==
    LET ns == {rs[i].round_number : i \in {j \in 1..Len(rs) :
                                             rs[j].session_id = sid}} IN
    IF ns = {} THEN 0 ELSE CHOOSE n \in ns : \A k \in ns : k <= n

\* rounds of a session
SessionRounds(rs, sid) == SelectSeq(rs, LAMBDA r : r.session_id = sid)

MutatingCalls == {"accept_offer", "request_quote", "submit_counter"}

\* C6: once a session has been accepted (accept_offer has stored its
\* status), every further AcceptOffer, RequestQuote or SubmitCounter on it
\* fails with InvalidState and leaves the session and its rounds unchanged.
C6_AcceptedIsTerminal ==
    [][\A sid \in SessionIds :
          (/\ sessions[sid].status = CompletedStatus
           /\ result'.op \in MutatingCalls
           /\ result'.id = sid) =>
              /\ ~result'.ok
              /\ result'.error = "InvalidState"
              /\ sessions'[sid] = sessions[sid]
              /\ SessionRounds(rounds', sid) = SessionRounds(rounds, sid)]_vars

\* C7: current_round never decreases and always equals the highest
\* round_number issued so far in the session.
C7_CurrentRoundIsHighest ==
    [][\A sid \in SessionIds :
          /\ sessions'[sid].current_round >= sessions[sid].current_round
          /\ sessions'[sid].current_round = HighestRoundNumber(rounds', sid)]_vars

\* C8: the rounds of one (session, supplier) pair have strictly increasing
\* round_number in creation order.
C8_PairRoundNumbersIncrease ==
    \A i, j \in 1..Len(rounds) :
        (/\ i < j
         /\ rounds[i].session_id = rounds[j].session_id
         /\ rounds[i].supplier_id = rounds[j].supplier_id) =>
            rounds[i].round_number < rounds[j].round_number

\* C9: each (session, supplier) pair has at most one accepted round, and
\* only the session's winning supplier has accepted rounds.
C9_OneAcceptedRound ==
    \A i \in 1..Len(rounds) :
        rounds[i].status = "accepted" =>
            /\ rounds[i].supplier_id =
                   sessions[rounds[i].session_id].winning_supplier_id
            /\ \A j \in 1..Len(rounds) :
                   (/\ rounds[j].status = "accepted"
                    /\ rounds[j].session_id = rounds[i].session_id
                    /\ rounds[j].supplier_id = rounds[i].supplier_id) => j = i

\* C10: completed_at is set iff status is accepted or cancelled, and
\* winning_supplier_id and final_price are non-null iff status is accepted.
C10_CompletionFieldsAccepted ==
    \A sid \in SessionIds :
        LET s == sessions[sid] IN
        /\ s.completed_at # NoTime <=> s.status \in {"accepted", "cancelled"}
        /\ (s.winning_supplier_id # Null /\ s.final_price # NoPrice)
               <=> s.status = "accepted"

\* position of a session status in open -> quoting -> negotiating -> accepted
\* (the status stored by accept_offer counts as accepted)
SessionRank(status) ==
    IF status = "open" THEN 0
    ELSE IF status = "quoting" THEN 1
    ELSE IF status = "negotiating" THEN 2
    ELSE 3

\* C11: a session is open after CreateSession, quoting after the first
\* successful RequestQuote, negotiating after a successful SubmitCounter,
\* accepted after AcceptOffer, and its status never moves backwards.
C11_StatusFollowsLifecycle ==
    [][/\ (result'.op = "create_session" /\ result'.ok) =>
             sessions'[result'.id].status = "open"
       /\ \A sid \in SessionIds :
             /\ SessionRank(sessions'[sid].status)
                    >= SessionRank(sessions[sid].status)
             /\ (result'.ok /\ result'.id = sid) =>
                    /\ (result'.op = "request_quote"
                        /\ sessions[sid].status = "open") =>
                           sessions'[sid].status = "quoting"
                    /\ result'.op = "submit_counter" =>
                           sessions'[sid].status = "negotiating"
                    /\ result'.op = "accept_offer" =>
                           sessions'[sid].status
                               \in {"accepted", CompletedStatus}]_vars

\* two finished calls of one operation on one row that overlapped: one of
\* them had read the row before the other committed
Overlapped(p, q, op) ==
    /\ p # q
    /\ calls[p].pc = "done" /\ calls[q].pc = "done"
    /\ calls[p].op = op /\ calls[q].op = op
    /\ calls[p].id = calls[q].id
    /\ calls[p].raced \/ calls[q].raced

\* C12: of two overlapping AcceptOffer calls for different suppliers on one
\* session at most one succeeds, and winning_supplier_id, final_price and
\* total_value all come from the one supplier whose round is marked accepted.
C12_OneAcceptWins ==
    \A p, q \in Procs :
        (Overlapped(p, q, "accept_offer") /\ calls[p].arg # calls[q].arg) =>
            LET sid == calls[p].id
                s == sessions[sid]
                accepted == {i \in 1..Len(rounds) :
                                /\ rounds[i].session_id = sid
                                /\ rounds[i].status = "accepted"} IN
            /\ ~(calls[p].ok /\ calls[q].ok)
            /\ \A i \in accepted :
                   /\ rounds[i].supplier_id = s.winning_supplier_id
                   /\ rounds[i].offered_price = s.final_price
                   /\ rounds[i].total_value = s.total_value
            /\ Cardinality(accepted) <= 1

\* C13: of two overlapping ExecutePayment calls on one mandate at most one
\* returns a successful execution result.
C13_OneExecutionWins ==
    \A p, q \in Procs :
        Overlapped(p, q, "execute_payment") => ~(calls[p].ok /\ calls[q].ok)

\* C14: a VerifyMandate that succeeds (not expired, signature and audience
\* valid) on a mandate in status created returns valid=true and leaves the
\* mandate verified whether or not a merchantAuthorization is supplied; the
\* merchantAuthorization is recorded only when given.
C14_VerifySetsVerified ==
    [][(/\ result'.op = "verify_mandate"
        /\ result'.id \in MandateIds
        /\ mandates[result'.id].status = "created"
        /\ now <= mandates[result'.id].expires_at
        /\ JwtDecode(mandates[result'.id].token, ServiceKey, now) = "ok") =>
          LET m == mandates[result'.id]
              m2 == mandates'[result'.id] IN
          /\ result'.valid
          /\ m2.status = "verified"
          /\ m2.merchant_authorization =
                 (IF Truthy(result'.arg) THEN result'.arg
                  ELSE m.merchant_authorization)]_vars

\* C15: VerifyMandate on an unexpired mandate whose stored token fails
\* signature verification or carries another audience returns valid=false
\* and sets status=failed with an error message; it never sets verified and
\* never records the merchantAuthorization.
C15_BadTokenFails ==
    [][(/\ result'.op = "verify_mandate"
        /\ result'.id \in MandateIds
        /\ now <= mandates[result'.id].expires_at
        /\ \/ mandates[result'.id].token.key # ServiceKey
           \/ mandates[result'.id].token.aud # Audience) =>
          LET m == mandates[result'.id]
              m2 == mandates'[result'.id] IN
          /\ ~result'.valid
          /\ m2.status = "failed"
          /\ m2.error_message # Null
          /\ m2.merchant_authorization = m.merchant_authorization]_vars

\* C16: verifying an untampered token before expires_at with the matching
\* public key returns decoded claims whose subject, amount and currency are
\* the values supplied at creation, and the supplier_id, amount and currency
\* reported by VerifyMandate equal them too.
C16_RoundTrip ==
    [][(/\ result'.op = "verify_mandate"
        /\ result'.id \in MandateIds
        /\ now < mandates[result'.id].expires_at
        /\ mandates[result'.id].token.key = ServiceKey
        /\ mandates[result'.id].token.aud = Audience) =>
          /\ result'.valid
          /\ result'.decoded = mandates[result'.id].args
          /\ result'.reported = mandates[result'.id].args]_vars

\* the round a successful submit_counter has answered: the latest round of
\* the pair, which the call has turned to countered
CounteredRound ==
    CHOOSE i \in LatestRounds(rounds, result'.id, result'.arg) :
        rounds'[i].status = "countered"

\* C17: with d = (last - counter) / last x 100, SubmitCounter answers
\* d <= 5 with the counter price and status accepted, 5 < d <= 10 with the
\* midpoint and countered, 10 < d <= 15 with last x 0.95 and countered,
\* d > 15 with last x 0.97 and countered (last 4.50, counter 3.80: 4.365).
C17_DecisionTable ==
    [][(result'.op = "submit_counter" /\ result'.ok) =>
          LET last == rounds[CounteredRound].offered_price
              counter == rounds'[CounteredRound].counter_price
              new == rounds'[Len(rounds')]
              d100 == (last - counter) * 100 IN
          IF d100 <= 5 * last
          THEN new.offered_price = counter /\ result'.status = "accepted"
          ELSE IF d100 <= 10 * last
          THEN /\ 2 * new.offered_price = last + counter
               /\ result'.status = "countered"
          ELSE IF d100 <= 15 * last
          THEN /\ 100 * new.offered_price = 95 * last
               /\ result'.status = "countered"
          ELSE /\ 100 * new.offered_price = 97 * last
               /\ result'.status = "countered"]_vars

\* what every successful request_quote does apart from the price: one round
\* appended for the asked supplier, numbered current_round + 1, and
\* current_round advanced to it
QuoteAppendsRound ==
    LET sid == result'.id
        item == sessions[sid].items[1]
        new == rounds'[Len(rounds')] IN
    /\ Len(rounds') = Len(rounds) + 1
    /\ SubSeq(rounds', 1, Len(rounds)) = rounds
    /\ new.session_id = sid
    /\ new.supplier_id = result'.arg
    /\ new.offer_type = "initial"
    /\ new.status = "received"
    /\ new.round_number = sessions[sid].current_round + 1
    /\ new.total_value = new.offered_price * item.quantity
    /\ sessions'[sid].current_round = new.round_number
    /\ sessions'[sid] = [sessions[sid] EXCEPT !.current_round = new.round_number]

\* base cost of the session whose quote the step has appended
QuotedBase == BasePrice(sessions[result'.id].items[1].sku)

\* C19: every successful RequestQuote appends exactly one round with
\* offer_type initial, status received, round_number = current_round before
\* the call + 1, offered_price within [baseCost x 1.05, baseCost x 1.15] and
\* total_value = offered_price x quantity, and sets current_round to that
\* round_number, whichever supplier is asked.
C19_QuoteRound ==
    [][(result'.op = "request_quote" /\ result'.ok) =>
          /\ QuoteAppendsRound
          /\ 100 * rounds'[Len(rounds')].offered_price >= 105 * QuotedBase
          /\ 100 * rounds'[Len(rounds')].offered_price <= 115 * QuotedBase]_vars

\* C19, amended: the same, with the offered_price rounded to whole cents and
\* therefore within half a cent of [baseCost x 1.05, baseCost x 1.15].
C19_QuoteRoundToCent ==
    [][(result'.op = "request_quote" /\ result'.ok) =>
          /\ QuoteAppendsRound
          /\ 200 * rounds'[Len(rounds')].offered_price
                 >= 210 * QuotedBase - 100
          /\ 200 * rounds'[Len(rounds')].offered_price
                 <= 230 * QuotedBase + 100]_vars

\* a second supplier's quote, numbered 2, priced below baseCost x 1.05
C19_Witness ==
    /\ result.op = "request_quote"
    /\ result.ok
    /\ Len(rounds) >= 2
    /\ rounds[Len(rounds)].round_number = 2
    /\ rounds[Len(rounds)].supplier_id # rounds[1].supplier_id
    /\ 100 * rounds[Len(rounds)].offered_price
           < 105 * BasePrice(sessions[result.id].items[1].sku)

\* what accept_offer does on success, with `status` the session status it
\* stores: for some latest round i of the pair, priced above 0, the session
\* takes winner, final_price and total_value from i, completed_at is now,
\* and i and no other round is marked accepted
AcceptTakesLatest(sid, sup, status) ==
    \E i \in LatestRounds(rounds, sid, sup) :
        /\ rounds[i].offered_price > 0
        /\ sessions' = [sessions EXCEPT
               ![sid] = [@ EXCEPT !.status = status,
                                  !.winning_supplier_id = sup,
                                  !.final_price = rounds[i].offered_price,
                                  !.total_value = rounds[i].total_value,
                                  !.completed_at = now]]
        /\ rounds' = [rounds EXCEPT ![i].status = "accepted"]

\* C18: AcceptOffer succeeds only if the supplier's latest round exists with
\* offered price > 0; on success it sets winning_supplier_id, final_price and
\* total_value from exactly that round, completed_at to now and status to
\* accepted, and marks that round and no other accepted; with no such round
\* it fails and changes nothing.
C18_AcceptOffer ==
    [][result'.op = "accept_offer" =>
          /\ result'.ok =>
                 AcceptTakesLatest(result'.id, result'.arg, "accepted")
          /\ ~result'.ok =>
                 /\ UNCHANGED <<sessions, rounds>>
                 /\ \/ result'.id \notin SessionIds
                    \/ \A i \in LatestRounds(rounds, result'.id, result'.arg) :
                           rounds[i].offered_price <= 0]_vars

\* C20: CompareOffers returns at most one entry per supplier, the offer of
\* that supplier's latest round and only when that round has status
\* received; the entries are sorted ascending by offered price for
\* criteria price and by total value for total_cost, and best_offer is the
\* first entry (none when the list is empty).
C20_CompareLatestRounds ==
    [][(result'.op = "compare_offers" /\ result'.ok) =>
          LET sid == result'.id
              ranked == result'.ranked
              n == Len(ranked) IN
          /\ \A k, l \in 1..n :
                 k < l =>
                     /\ ranked[k].supplier_id # ranked[l].supplier_id
                     /\ result'.arg = "price" =>
                            ranked[k].offered_price <= ranked[l].offered_price
                     /\ result'.arg = "total_cost" =>
                            ranked[k].total_value <= ranked[l].total_value
          /\ \A sup \in Suppliers :
                 LET open == {i \in LatestRounds(rounds, sid, sup) :
                                 rounds[i].status = "received"} IN
                 /\ open # {} =>
                        \E k \in 1..n : ranked[k].supplier_id = sup
                 /\ \A k \in 1..n :
                        ranked[k].supplier_id = sup =>
                            \E i \in open : ranked[k] = OfferOf(rounds[i])
          /\ result'.best = IF n = 0 THEN NoOffer ELSE ranked[1]]_vars

\* C21: from every non-terminal session state (open, quoting, negotiating)
\* a cancel operation is available that moves the session to cancelled with
\* completed_at set, and a cancelled session rejects all further mutation.
C21_CancelAvailable ==
    [][\A sid \in SessionIds :
          /\ (/\ result'.op \in UnlistedTools
              /\ result'.id = sid
              /\ sessions[sid].status \in {"open", "quoting", "negotiating"}) =>
                 /\ result'.ok
                 /\ sessions'[sid].status = "cancelled"
                 /\ sessions'[sid].completed_at = now
          /\ (/\ sessions[sid].status = "cancelled"
              /\ result'.op \in MutatingCalls \cup UnlistedTools
              /\ result'.id = sid) =>
                 /\ ~result'.ok
                 /\ sessions'[sid] = sessions[sid]
                 /\ SessionRounds(rounds', sid) = SessionRounds(rounds, sid)]_vars

\* items as create_session is specified to accept them
ValidItems(items) ==
    /\ items # << >>
    /\ \A k \in 1..Len(items) : items[k].quantity >= 1

\* C22: CreateSession with an empty items list fails with InvalidArgument
\* and creates no session (with or without targetDiscountPercent); every
\* session that exists has a non-empty items list with quantity >= 1 for
\* each item, and has status open and current_round 0 at creation.
C22_EmptyItemsRejected ==
    [][/\ result'.op = "create_session" =>
             /\ ~result'.ok =>
                    /\ result'.error = "InvalidArgument"
                    /\ sessions' = sessions
             /\ result'.ok =>
                    /\ Len(sessions') = Len(sessions) + 1
                    /\ sessions'[Len(sessions')].status = "open"
                    /\ sessions'[Len(sessions')].current_round = 0
       /\ \A sid \in 1..Len(sessions') : ValidItems(sessions'[sid].items)]_vars

\* how many entries of a sequence equal x
Occurrences(seq, x) == Cardinality({k \in 1..Len(seq) : seq[k] = x})

\* the rows of a session as get_status would list each of them
SessionRoundData(rs, sid) ==
    LET listed == SessionRounds(rs, sid) IN
    [k \in 1..Len(listed) |-> RoundData(listed[k])]

C24_CounterFrame ==
    [][/\ Len(rounds') >= Len(rounds)
       /\ \A j \in 1..Len(rounds) :
              /\ rounds'[j].session_id = rounds[j].session_id
              /\ rounds'[j].supplier_id = rounds[j].supplier_id
              /\ rounds'[j].round_number = rounds[j].round_number
       /\ (result'.op = "submit_counter" /\ result'.ok) =>
              \E i \in LatestRounds(rounds, result'.id, result'.arg) :
                  LET new == rounds'[Len(rounds')] IN
                  /\ Len(rounds') = Len(rounds) + 1
                  /\ \A j \in 1..Len(rounds) : j # i => rounds'[j] = rounds[j]
                  /\ rounds'[i].status = "countered"
                  /\ rounds'[i].counter_price # NoPrice
                  /\ rounds'[i].justification # Null
                  /\ rounds'[i] =
                         [rounds[i] EXCEPT
                             !.counter_price = rounds'[i].counter_price,
                             !.justification = rounds'[i].justification,
                             !.status = "countered"]
                  /\ new.session_id = result'.id
                  /\ new.supplier_id = result'.arg
                  /\ new.offer_type = "counter"
                  /\ new.status = "received"
                  /\ new.round_number = rounds[i].round_number + 1]_vars

\* a counter-offer has been answered while another session and the other
\* supplier's rounds are in the table
C24_Witness ==
    /\ result.op = "submit_counter"
    /\ result.ok
    /\ \E j \in 1..Len(rounds) :
           \/ rounds[j].session_id # result.id
           \/ rounds[j].supplier_id # result.arg
    /\ rounds[Len(rounds)].offer_type = "counter"
    /\ Len(sessions) > 1

\* C25: a negotiation operation that fails changes no state: RequestQuote
\* with an unknown session or supplier, SubmitCounter with an unknown
\* session or no prior round of the pair, and AcceptOffer with an unknown
\* session or no valid offer each return an error and leave every session
\* and every round unchanged.
C25_FailureChangesNothing ==
    [][result'.op \in MutatingCalls =>
          LET sid == result'.id
              sup == result'.arg IN
          /\ ~result'.ok => UNCHANGED <<sessions, rounds>>
          /\ (/\ result'.op = "request_quote"
              /\ sid \notin SessionIds \/ sup \notin Suppliers) => ~result'.ok
          /\ (/\ result'.op = "submit_counter"
              /\ \/ sid \notin SessionIds
                 \/ PairRounds(rounds, sid, sup) = {}) => ~result'.ok
          /\ (/\ result'.op = "accept_offer"
              /\ \/ sid \notin SessionIds
                 \/ \A i \in LatestRounds(rounds, sid, sup) :
                        rounds[i].offered_price <= 0) => ~result'.ok]_vars

\* a call for a supplier without rounds has failed on a session that holds
\* rounds and has moved its counter
C25_Witness ==
    /\ result.op \in {"submit_counter", "accept_offer"}
    /\ ~result.ok
    /\ result.id \in SessionIds
    /\ sessions[result.id].current_round > 0
    /\ PairRounds(rounds, result.id, result.arg) = {}
    /\ rounds # << >>

\* C26: max_rounds is stored but never enforced: RequestQuote and
\* SubmitCounter succeed whatever current_round is, also when it has reached
\* or passed max_rounds, so current_round > max_rounds is reachable and no
\* call is rejected because of max_rounds.
C26_MaxRoundsNotEnforced ==
    [][/\ \A sid \in SessionIds :
              sessions'[sid].max_rounds = sessions[sid].max_rounds
       /\ (result'.op = "create_session" /\ result'.ok) =>
              sessions'[result'.id].max_rounds \in MaxRoundsArgs
       /\ (/\ result'.op = "request_quote"
           /\ result'.id \in SessionIds
           /\ result'.arg \in Suppliers
           /\ sessions[result'.id].items # << >>) =>
              /\ result'.ok
              /\ Len(rounds') = Len(rounds) + 1
       /\ (/\ result'.op = "submit_counter"
           /\ result'.id \in SessionIds
           /\ PairRounds(rounds, result'.id, result'.arg) # {}) =>
              /\ result'.ok
              /\ Len(rounds') = Len(rounds) + 1]_vars

\* a quote or counter-offer has succeeded on a session whose counter had
\* reached max_rounds, and has taken current_round beyond it
C26_Witness ==
    /\ result.op \in {"request_quote", "submit_counter"}
    /\ result.ok
    /\ sessions[result.id].current_round > sessions[result.id].max_rounds
    /\ rounds[Len(rounds)].session_id = result.id
    /\ rounds[Len(rounds)].round_number > sessions[result.id].max_rounds

\* C27: over any sequence of VerifyMandate and ExecutePayment calls each
\* mandate is executed at most once: after one ExecutePayment has succeeded
\* no later one on the same mandate succeeds, and its executed_at and
\* po_number never change again.
C27_ExecutedOnce ==
    [][\A id \in MandateIds :
          mandates[id].executed_at # NoTime =>
              /\ ~(/\ result'.op = "execute_payment"
                   /\ result'.id = id
                   /\ result'.ok)
              /\ mandates'[id].executed_at = mandates[id].executed_at
              /\ mandates'[id].po_number = mandates[id].po_number]_vars

\* C28: no mandate is executed after it has expired: ExecutePayment called
\* later than the mandate's expires_at never sets status executed, whether
\* the stored status is created or verified.
C28_NoExecutionAfterExpiry ==
    [][(/\ result'.op = "execute_payment"
        /\ result'.id \in MandateIds
        /\ now > mandates[result'.id].expires_at) =>
          /\ ~result'.ok
          /\ mandates'[result'.id].status # "executed"
          /\ mandates'[result'.id].executed_at
                 = mandates[result'.id].executed_at]_vars

\* C29: for every SubmitCounter, also one whose counterPrice is above the
\* supplier's last offer, the offered_price of the new round is never
\* higher than the offered_price of the supplier's prior round.
C29_OffersNeverRise ==
    [][(result'.op = "submit_counter" /\ result'.ok) =>
          rounds'[Len(rounds')].offered_price
              <= rounds[CounteredRound].offered_price]_vars

\* C30: when two RequestQuote calls on one session overlap so that both
\* read current_round before either commits, the two new rounds still get
\* distinct round_numbers and current_round afterwards equals the highest
\* round_number issued.
C30_NoLostRound ==
    \A p, q \in Procs :
        (Overlapped(p, q, "request_quote") /\ calls[p].ok /\ calls[q].ok) =>
            /\ calls[p].round # calls[q].round
            /\ sessions[calls[p].id].current_round
                   = HighestRoundNumber(rounds, calls[p].id)

====
